---- MODULE Spec2Model ----
(***************************************************************************)
(* Model of composer/metrics/nlp.py: the torchmetrics accumulators used    *)
(* for in-context-learning evaluation.  Every metric object is a record of *)
(* the states it registers with add_state; update adds to them, compute    *)
(* reads them, sync reduces them across ranks.                             *)
(*                                                                         *)
(* Floating point tensors are modelled by exact rationals <<num, den>>     *)
(* (den > 0, lowest terms); <<0, 0>> stands for nan and <<1, 0>> for inf.  *)
(***************************************************************************)
EXTENDS Integers, Sequences, FiniteSets, TLC

VARIABLES
    metric,      \* class of the metric object under test
    state,       \* its registered states (add_state), as one accumulator
    rank_state,  \* the same metric on every rank of a distributed run
    calls,       \* log of the calls so far: the collective operations of a
                 \* sync <<rank, who, what>>, or the items given to update
    args,        \* arguments of the last call
    before,      \* the registered states when the last call started
    ret          \* what the last call returned or raised

vars == <<metric, state, rank_state, calls, args, before, ret>>

----------------------------------------------------------------------------
(* Exact arithmetic standing in for float tensors.                         *)

Abs(x) == IF x < 0 THEN -x ELSE x

RECURSIVE GCD(_, _)
GCD(a, b) == IF b = 0 THEN a ELSE GCD(b, a % b)

NaN == <<0, 0>>

Rat(n, d) ==
    IF d = 0 THEN (IF n = 0 THEN NaN ELSE <<1, 0>>)
    ELSE LET g == GCD(Abs(n), Abs(d))
             s == IF d < 0 THEN -1 ELSE 1
         IN  <<(s * n) \div g, (s * d) \div g>>

IsNaN(x) == x[2] = 0

RAdd(x, y) == IF IsNaN(x) \/ IsNaN(y) THEN NaN
              ELSE Rat(x[1] * y[2] + y[1] * x[2], x[2] * y[2])
RSub(x, y) == IF IsNaN(x) \/ IsNaN(y) THEN NaN
              ELSE Rat(x[1] * y[2] - y[1] * x[2], x[2] * y[2])
RMul(x, y) == IF IsNaN(x) \/ IsNaN(y) THEN NaN
              ELSE Rat(x[1] * y[1], x[2] * y[2])
RDiv(x, y) == IF IsNaN(x) \/ IsNaN(y) THEN NaN
              ELSE Rat(x[1] * y[2], x[2] * y[1])
RAbs(x)    == <<Abs(x[1]), x[2]>>
RLe(x, y)  == ~IsNaN(x) /\ ~IsNaN(y) /\ x[1] * y[2] <= y[1] * x[2]
RInt(n)    == <<n, 1>>

----------------------------------------------------------------------------
(* Bounds of the model.                                                    *)

MaxN == 6          \* largest number of generated samples given to estimator
MaxTotal == 3      \* updates are accepted while the accumulator's total is below this
MaxBuckets == 3    \* largest n_buckets of a calibration-error metric
NRanks == 2        \* processes of a distributed run

----------------------------------------------------------------------------
(* InContextLearningCodeEvalAccuracy.estimator                             *)

\* np.arange(lo, hi): lo, lo + 1, ..., hi - 1
Arange(lo, hi) == [j \in 1..(IF hi > lo THEN hi - lo ELSE 0) |-> lo + j - 1]

\* np.prod of a sequence of rationals; the empty product is 1.0
RECURSIVE Prod(_)
Prod(s) == IF s = <<>> THEN RInt(1) ELSE RMul(Head(s), Prod(Tail(s)))

\* a plausible slip: the product starts one element early (n - c, not n - c + 1)
estimator_early(n, c, k) ==
    IF n - c < k THEN RInt(1)
    ELSE LET r == Arange(n - c, n + 1)
         IN  RSub(RInt(1), Prod([j \in DOMAIN r |-> RSub(RInt(1), Rat(k, r[j]))]))

estimator(n, c, k) ==
    IF n - c < k THEN RInt(1)
    ELSE LET r == Arange(n - c + 1, n + 1)
         IN  RSub(RInt(1), Prod([j \in DOMAIN r |-> RSub(RInt(1), Rat(k, r[j]))]))

NoState == [none |-> 0]

InitEstimator ==
    /\ metric = "InContextLearningCodeEvalAccuracy"
    /\ state = NoState
    /\ rank_state = <<>>
    /\ calls = <<>>
    /\ \E n \in 1..MaxN : \E c \in 0..n : \E k \in 1..n :
           args = [op |-> "pending", n |-> n, c |-> c, k |-> k]
    /\ before = NoState
    /\ ret = NaN

CallEstimator ==
    /\ args.op = "pending"
    /\ ret' = estimator(args.n, args.c, args.k)
    /\ args' = [args EXCEPT !.op = "estimator"]
    /\ UNCHANGED <<metric, state, rank_state, calls, before>>

NextEstimator == CallEstimator

SpecEstimator == InitEstimator /\ [][NextEstimator]_vars

\* comb(n, k) by Pascal's rule
RECURSIVE Comb(_, _)
Comb(n, k) == IF k = 0 THEN 1
              ELSE IF n < k THEN 0
              ELSE Comb(n - 1, k - 1) + Comb(n - 1, k)

\* C5: estimator(n, c, k) = 1 - comb(n - c, k) / comb(n, k) for 0 <= c <= n and
\* 1 <= k <= n: 1.0 whenever n - c < k, 0 when c = 0, c / n when k = 1, always
\* within [0, 1] and non-decreasing in c.
C5_EstimatorIsPassAtK ==
    args.op = "estimator" =>
        LET n == args.n
            c == args.c
            k == args.k
        IN  /\ ret = Rat(Comb(n, k) - Comb(n - c, k), Comb(n, k))
            /\ (n - c < k => ret = RInt(1))
            /\ (c = 0 => ret = RInt(0))
            /\ (k = 1 => ret = Rat(c, n))
            /\ RLe(RInt(0), ret) /\ RLe(ret, RInt(1))
            /\ (c < n => RLe(ret, estimator(n, c + 1, k)))

\* an estimate strictly between 0 and 1 has been returned
C5_Witness ==
    /\ args.op = "estimator"
    /\ args.n - args.c >= args.k /\ args.c > 0 /\ args.k > 1
    /\ ret \notin {RInt(0), RInt(1)}

----------------------------------------------------------------------------
(* InContextLearningCodeEvalAccuracy: get_client, update                   *)

RECURSIVE RSum(_)
RSum(s) == IF s = <<>> THEN RInt(0) ELSE RAdd(Head(s), RSum(Tail(s)))

\* Python's all() and any() over a list of booleans
AllOf(s) == \A i \in DOMAIN s : s[i]
AnyOf(s) == \E i \in DOMAIN s : s[i]

\* values of the environment variable CODE_EVAL_DEVICE after upper(); "NONE" is unset
EvalDevices == {"LOCAL", "LAMBDA", "MOSAICML", "NONE", "GPU"}

\* get_client returns a client for the three known devices and raises otherwise
get_client(eval_device) ==
    IF eval_device \in {"LOCAL", "LAMBDA", "MOSAICML"} THEN "client" ELSE "ValueError"

\* client.invoke answers, per prompt, per generation, one boolean per test case:
\* batches of one prompt with one or two test cases, and of two prompts with one
TestRuns(t) == [1..t -> BOOLEAN]
PromptResults(n) == UNION {[1..n -> TestRuns(t)] : t \in 1..2}
BatchResults(n) == [1..1 -> PromptResults(n)] \cup [1..2 -> [1..n -> TestRuns(1)]]

\* a plausible slip: a generation counts once any of its tests passes
num_correct_any(test_result) ==
    Cardinality({g \in DOMAIN test_result : AnyOf(test_result[g])})

\* the inner loop of update: the generations that pass all their tests
num_correct(test_result) ==
    Cardinality({g \in DOMAIN test_result : AllOf(test_result[g])})

pass_at_k_rates(results, num_generations, pass_at_k) ==
    [p \in DOMAIN results |->
        estimator(num_generations, num_correct(results[p]), pass_at_k)]

InitCodeEval ==
    /\ metric = "InContextLearningCodeEvalAccuracy"
    /\ \E d \in EvalDevices :
           state = [correct |-> RInt(0), total |-> 0, eval_device |-> d]
    /\ rank_state = <<>>
    /\ calls = <<>>
    /\ args = [op |-> "__init__"]
    /\ before = NoState
    /\ ret = "ok"

CodeEvalUpdate ==
    /\ state.total < MaxTotal
    /\ \E n \in 1..2 : \E k \in 1..n : \E results \in BatchResults(n) :
         /\ args' = [op |-> "update", num_generations |-> n, pass_at_k |-> k,
                     results |-> results]
         /\ before' = state
         /\ IF get_client(state.eval_device) = "ValueError"
            THEN /\ ret' = "ValueError"
                 /\ state' = state
            ELSE /\ ret' = "ok"
                 /\ state' = [state EXCEPT
                        !.total = @ + Len(results),
                        !.correct = RAdd(@, RSum(pass_at_k_rates(results, n, k)))]
    /\ UNCHANGED <<metric, rank_state, calls>>

\* compute: correct / total
CodeEvalCompute ==
    /\ args.op # "compute"
    /\ args' = [op |-> "compute"]
    /\ before' = state
    /\ ret' = RDiv(state.correct, RInt(state.total))
    /\ UNCHANGED <<metric, state, rank_state, calls>>

NextCodeEval == CodeEvalUpdate \/ CodeEvalCompute

SpecCodeEval == InitCodeEval /\ [][NextCodeEval]_vars

UpdateDone == args.op = "update" /\ ret = "ok"

\* the prompts of the last batch with at least one generation passing every test
PromptsPassed ==
    Cardinality({p \in DOMAIN args.results :
                    \E g \in DOMAIN args.results[p] :
                        \A t \in DOMAIN args.results[p][g] : args.results[p][g][t]})

PassAtK(n, c, k) == Rat(Comb(n, k) - Comb(n - c, k), Comb(n, k))

AllPassing(p) ==
    Cardinality({g \in DOMAIN args.results[p] :
                    \A t \in DOMAIN args.results[p][g] : args.results[p][g][t]})

----------------------------------------------------------------------------
(* MaskedAccuracy                                                          *)

IgnoreIndex == -100

\* logits over two classes (class indices 0 and 1), one row per position
LogitRows == [1..2 -> {0, 1}]

\* torch.argmax(row, dim=-1): the index (from 0) of the first maximal value
argmax(row) ==
    CHOOSE c \in 0..(Len(row) - 1) :
        /\ \A d \in 0..(Len(row) - 1) : row[d + 1] <= row[c + 1]
        /\ \A d \in 0..(c - 1) : row[d + 1] < row[c + 1]

\* boolean-mask indexing x[mask]: the elements of x where mask holds, in order
RECURSIVE MaskSelect(_, _)
MaskSelect(x, mask) ==
    IF x = <<>> THEN <<>>
    ELSE (IF Head(mask) THEN <<Head(x)>> ELSE <<>>) \o MaskSelect(Tail(x), Tail(mask))

\* torch.sum over a boolean tensor
CountTrue(b) == Cardinality({i \in DOMAIN b : b[i]})

\* a plausible slip: nothing is masked out
padding_mask_none(target, ignore_index) == [i \in DOMAIN target |-> TRUE]

\* mask = (target != self.ignore_index)
padding_mask(target, ignore_index) == [i \in DOMAIN target |-> target[i] # ignore_index]

\* update(preds, target), preds being the logits
masked_accuracy_update(st, logits, target) ==
    LET preds == [i \in DOMAIN logits |-> argmax(logits[i])]
        mask == padding_mask(target, st.ignore_index)
        masked_target == MaskSelect(target, mask)
        masked_preds == MaskSelect(preds, mask)
    IN  [st EXCEPT
            !.correct = @ + CountTrue([i \in DOMAIN masked_preds |->
                                         masked_preds[i] = masked_target[i]]),
            !.total = @ + CountTrue(mask)]

MaskedAccuracyInputs ==
    UNION {[preds : [1..len -> LogitRows], target : [1..len -> {0, 1, IgnoreIndex}]]
           : len \in 1..2}

MaskedAccuracyState == [correct |-> 0, total |-> 0, ignore_index |-> IgnoreIndex]

InitMaskedAccuracy ==
    /\ metric = "MaskedAccuracy"
    /\ state = MaskedAccuracyState
    /\ rank_state = <<>>
    /\ calls = <<>>
    /\ args = [op |-> "__init__"]
    /\ before = NoState
    /\ ret = "ok"

MaskedAccuracyUpdate ==
    /\ state.total < MaxTotal
    /\ \E x \in MaskedAccuracyInputs :
         /\ args' = [op |-> "update", preds |-> x.preds, target |-> x.target]
         /\ before' = state
         /\ ret' = "ok"
         /\ state' = masked_accuracy_update(state, x.preds, x.target)
    /\ UNCHANGED <<metric, rank_state, calls>>

MaskedAccuracyCompute ==
    /\ args.op # "compute"
    /\ args' = [op |-> "compute"]
    /\ before' = state
    /\ ret' = RDiv(RInt(state.correct), RInt(state.total))
    /\ UNCHANGED <<metric, state, rank_state, calls>>

NextMaskedAccuracy == MaskedAccuracyUpdate \/ MaskedAccuracyCompute

SpecMaskedAccuracy == InitMaskedAccuracy /\ [][NextMaskedAccuracy]_vars

\* the positions of the last update whose target is not the ignored class
Unmasked == {i \in DOMAIN args.target : args.target[i] # -100}

\* class c is the first maximal entry of a row of logits
IsFirstMax(row, c) ==
    /\ \A d \in DOMAIN row : row[d] <= row[c + 1]
    /\ \A d \in 1..c : row[d] < row[c + 1]

\* C8: an update adds to total the number of positions whose target differs from
\* ignore_index and to correct the number of those whose argmax class equals
\* the target; masked positions change neither counter whatever is predicted
\* there; always 0 <= correct <= total, and compute returns correct / total.
C8_MaskedPositionsIgnored ==
    /\ 0 <= state.correct /\ state.correct <= state.total
    /\ UpdateDone =>
         /\ state.total = before.total + Cardinality(Unmasked)
         /\ state.correct = before.correct +
                Cardinality({i \in Unmasked : IsFirstMax(args.preds[i], args.target[i])})
    /\ (args.op = "compute" /\ state.total > 0) =>
         /\ ret[1] * state.total = state.correct * ret[2]
         /\ ret[2] > 0

\* an update saw a masked position (predicted as class 1) beside a correctly
\* predicted one
C8_Witness ==
    /\ UpdateDone
    /\ \E i \in DOMAIN args.target :
           args.target[i] = -100 /\ argmax(args.preds[i]) = 1
    /\ state.correct = before.correct + 1
    /\ state.total = before.total + 1

----------------------------------------------------------------------------
(* InContextLearningLMAccuracy                                             *)

\* x.index_select(dim=0, index=idx): the rows of x at the (0-based) indices
index_select(x, idx) == [n \in DOMAIN idx |-> x[idx[n] + 1]]

\* a plausible slip: one matching continuation token is enough
tokens_match_any(pred, targ) == \E n \in DOMAIN pred : pred[n] = targ[n]

\* (cont_tok_pred == cont_tok_targ).all()
tokens_match(pred, targ) == \A n \in DOMAIN pred : pred[n] = targ[n]

\* one sample: logits and (left-shifted) labels at positions 0 and 1 of three
\* input tokens, and the input positions of its continuation
LMRows == {<<1, 0>>, <<0, 1>>}
ContinuationIndices == {<<1>>, <<2>>, <<1, 2>>}
LMSamples ==
    [logits : [1..2 -> LMRows], labels : [1..2 -> {0, 1}],
     continuation_indices : ContinuationIndices]
LMBatches ==
    [1..1 -> LMSamples] \cup
    [1..2 -> {x \in LMSamples : x.labels = <<0, 0>>}]

\* the body of the loop of update for the sample at batch_idx
lm_sample_correct(x) ==
    LET shifted == [n \in DOMAIN x.continuation_indices |->
                        x.continuation_indices[n] - 1]
        rows == index_select(x.logits, shifted)
        cont_tok_pred == [n \in DOMAIN rows |-> argmax(rows[n])]
        cont_tok_targ == index_select(x.labels, shifted)
    IN  tokens_match(cont_tok_pred, cont_tok_targ)

\* update: the loop over the samples of the batch.  A row of response_cache
\* is represented by its 'correct' entry.
RECURSIVE lm_accuracy_update(_, _)
lm_accuracy_update(st, batch) ==
    IF batch = <<>> THEN st
    ELSE LET correct == lm_sample_correct(Head(batch))
             counted == IF correct THEN [st EXCEPT !.correct = @ + 1] ELSE st
             cached == IF st.cache_responses
                       THEN [counted EXCEPT
                                !.response_cache = Append(@, [correct |-> correct])]
                       ELSE counted
         IN  lm_accuracy_update([cached EXCEPT !.total = @ + 1], Tail(batch))

\* __init__ of the metrics with the two counters correct and total
ICLCounterState(cache_responses) ==
    [correct |-> 0, total |-> 0,
     response_cache |-> <<>>, cache_responses |-> cache_responses]

InitLMAccuracy ==
    /\ metric = "InContextLearningLMAccuracy"
    /\ state = ICLCounterState(FALSE)
    /\ rank_state = <<>>
    /\ calls = <<>>
    /\ args = [op |-> "__init__"]
    /\ before = NoState
    /\ ret = "ok"

LMAccuracyUpdate ==
    /\ state.total < MaxTotal
    /\ \E batch \in LMBatches :
         /\ args' = [op |-> "update", batch |-> batch]
         /\ before' = state
         /\ ret' = "ok"
         /\ state' = lm_accuracy_update(state, batch)
    /\ UNCHANGED <<metric, rank_state, calls>>

LMAccuracyCompute ==
    /\ args.op # "compute"
    /\ args' = [op |-> "compute"]
    /\ before' = state
    /\ ret' = RDiv(RInt(state.correct), RInt(state.total))
    /\ UNCHANGED <<metric, state, rank_state, calls>>

NextLMAccuracy == LMAccuracyUpdate \/ LMAccuracyCompute

SpecLMAccuracy == InitLMAccuracy /\ [][NextLMAccuracy]_vars

\* sample x predicts its whole continuation: at every continuation index j the
\* first maximal logit at position j - 1 is the label at position j - 1
\* (position j - 1 is element j of the sequences)
ContinuationPredicted(x) ==
    \A n \in DOMAIN x.continuation_indices :
        LET j == x.continuation_indices[n]
        IN  IsFirstMax(x.logits[j], x.labels[j])

\* C9: a sample is counted correct iff the argmax prediction equals the label at
\* every continuation position shifted by -1; total grows by one per sample;
\* nothing at the other positions enters correct or total.
C9_CorrectIffContinuationPredicted ==
    UpdateDone =>
        /\ state.total = before.total + Len(args.batch)
        /\ state.correct = before.correct +
               Cardinality({b \in DOMAIN args.batch : ContinuationPredicted(args.batch[b])})

\* a sample was counted correct although its context position is mispredicted
C9_Witness ==
    /\ UpdateDone
    /\ Len(args.batch) = 1
    /\ args.batch[1].continuation_indices = <<2>>
    /\ argmax(args.batch[1].logits[1]) # args.batch[1].labels[1]
    /\ state.correct = before.correct + 1

----------------------------------------------------------------------------
(* InContextLearningMultipleChoiceAccuracy                                 *)

\* Python list operations
ListSlice(s, start, end) == SubSeq(s, start + 1, end)
ListMin(s) == CHOOSE v \in {s[i] : i \in DOMAIN s} : \A i \in DOMAIN s : v <= s[i]
ListIndexLast(s, v) ==
    (CHOOSE i \in DOMAIN s : s[i] = v /\ \A j \in DOMAIN s : s[j] = v => j <= i) - 1
ListIndex(s, v) ==
    (CHOOSE i \in DOMAIN s : s[i] = v /\ \A j \in 1..(i - 1) : s[j] # v) - 1

\* a plausible slip: on a tie the last of the minimal choices is taken
idx_min_last(subset) == ListIndexLast(subset, ListMin(subset))

\* idx_min = subset.index(min(subset))
idx_min(subset) == ListIndex(subset, ListMin(subset))

\* The first loop of update leaves one perplexity per choice (row of the batch):
\* exp of the cross entropy of the continuation tokens, here one of two levels.
\* A batch is its perplexities, its choice_groupings and its gold_indices.
PerplexityLevels == {1, 2}
ChoiceGroupings == {<<<<0, 2>>>>, <<<<0, 3>>>>, <<<<0, 2>>, <<2, 4>>>>}
RowsOf(groupings) == groupings[Len(groupings)][2]
MCBatches ==
    UNION {[perplexities : [1..RowsOf(g) -> PerplexityLevels],
            choice_groupings : {g},
            gold_indices : {gold \in [1..Len(g) -> 0..2] :
                               \A q \in 1..Len(g) : gold[q] < g[q][2] - g[q][1]}]
           : g \in ChoiceGroupings}

\* the body of the second loop of update for question q
mc_question_correct(batch, q) ==
    LET start == batch.choice_groupings[q][1]
        end == batch.choice_groupings[q][2]
        subset == ListSlice(batch.perplexities, start, end)
    IN  idx_min(subset) = batch.gold_indices[q]

\* update: the second loop, over questions q, q + 1, ... of the batch
RECURSIVE mc_accuracy_loop(_, _, _)
mc_accuracy_loop(st, batch, q) ==
    IF q > Len(batch.choice_groupings) THEN st
    ELSE LET correct == mc_question_correct(batch, q)
             counted == IF correct THEN [st EXCEPT !.correct = @ + 1] ELSE st
             cached == IF st.cache_responses
                       THEN [counted EXCEPT
                                !.response_cache = Append(@, [correct |-> correct])]
                       ELSE counted
         IN  mc_accuracy_loop([cached EXCEPT !.total = @ + 1], batch, q + 1)

mc_accuracy_update(st, batch) == mc_accuracy_loop(st, batch, 1)

InitMCAccuracy ==
    /\ metric = "InContextLearningMultipleChoiceAccuracy"
    /\ state = ICLCounterState(FALSE)
    /\ rank_state = <<>>
    /\ calls = <<>>
    /\ args = [op |-> "__init__"]
    /\ before = NoState
    /\ ret = "ok"

MCAccuracyUpdate ==
    /\ state.total < MaxTotal
    /\ \E batch \in MCBatches :
         /\ args' = [op |-> "update", batch |-> batch]
         /\ before' = state
         /\ ret' = "ok"
         /\ state' = mc_accuracy_update(state, batch)
    /\ UNCHANGED <<metric, rank_state, calls>>

MCAccuracyCompute ==
    /\ args.op # "compute"
    /\ args' = [op |-> "compute"]
    /\ before' = state
    /\ ret' = RDiv(RInt(state.correct), RInt(state.total))
    /\ UNCHANGED <<metric, state, rank_state, calls>>

NextMCAccuracy == MCAccuracyUpdate \/ MCAccuracyCompute

SpecMCAccuracy == InitMCAccuracy /\ [][NextMCAccuracy]_vars

\* row r (0-based, within the batch) is the model's choice for question q: it
\* lies in the grouping, no choice of the grouping has a lower perplexity, and
\* every earlier choice of the grouping has a higher one
IsChoice(batch, q, r) ==
    LET start == batch.choice_groupings[q][1]
        end == batch.choice_groupings[q][2]
    IN  /\ start <= r /\ r < end
        /\ \A o \in start..(end - 1) : batch.perplexities[r + 1] <= batch.perplexities[o + 1]
        /\ \A o \in start..(r - 1) : batch.perplexities[r + 1] < batch.perplexities[o + 1]

\* C10: per (start, end) grouping the model's choice is the lowest-perplexity
\* choice of perplexities[start:end], the first one on a tie; correct grows by 1
\* exactly when its position relative to start is the gold index, and total
\* grows by 1 per grouping, not per choice.
C10_LowestPerplexityChoice ==
    UpdateDone =>
        LET batch == args.batch
        IN  /\ state.total = before.total + Len(batch.choice_groupings)
            /\ state.correct = before.correct +
                   Cardinality({q \in DOMAIN batch.choice_groupings :
                       IsChoice(batch, q,
                           batch.choice_groupings[q][1] + batch.gold_indices[q])})

\* two questions in one batch, the second one tied between its two choices and
\* won by the first of them
C10_Witness ==
    /\ UpdateDone
    /\ Len(args.batch.choice_groupings) = 2
    /\ args.batch.perplexities[3] = args.batch.perplexities[4]
    /\ args.batch.perplexities[1] > args.batch.perplexities[2]
    /\ args.batch.gold_indices = <<1, 0>>
    /\ state.correct = before.correct + 2
    /\ state.total = before.total + 2

----------------------------------------------------------------------------
(* InContextLearningExpectedCalibrationError and its LM subclass           *)

\* sum of a sequence of integers (torch.sum of a counter tensor)
RECURSIVE SumSeq(_)
SumSeq(s) == IF s = <<>> THEN 0 ELSE Head(s) + SumSeq(Tail(s))

\* int(x) of a non-negative float
IntOf(x) == x[1] \div x[2]

RMin(x, y) == IF RLe(x, y) THEN x ELSE y

RECURSIVE RMinSeq(_)
RMinSeq(s) == IF Len(s) = 1 THEN s[1] ELSE RMin(Head(s), RMinSeq(Tail(s)))

\* x.max(dim=-1).values of one row
RowMax(row) == CHOOSE v \in {row[i] : i \in DOMAIN row} : \A i \in DOMAIN row : row[i] <= v

\* After torch.softmax every continuation position holds a distribution over
\* the classes, here in quarters: <<2, 2>> is (0.5, 0.5).
ProbRows == {<<1, 1, 1, 1>>, <<2, 2>>, <<0, 4>>}
ECESamples ==
    UNION {[probs : [1..len -> ProbRows], targ : [1..len -> {0, 1}]] : len \in 1..2}

\* confidence = cont_tok_logits.max(dim=-1).values.min()
lm_confidence(x) ==
    RMinSeq([n \in DOMAIN x.probs |-> Rat(RowMax(x.probs[n]), 4)])

\* bucket_idx = int(confidence * n_buckets), the last bucket for confidence 1
bucket_of(confidence, n_buckets) ==
    LET bucket_idx == IntOf(RMul(confidence, RInt(n_buckets)))
    IN  IF bucket_idx = n_buckets THEN bucket_idx - 1 ELSE bucket_idx

\* update of InContextLearningLMExpectedCalibrationError for one sample
lm_ece_update(st, x) ==
    LET cont_tok_pred == [n \in DOMAIN x.probs |-> argmax(x.probs[n])]
        bucket_idx == bucket_of(lm_confidence(x), st.n_buckets)
    IN  [st EXCEPT
            !.bucket_correct[bucket_idx + 1] =
                IF tokens_match(cont_tok_pred, x.targ) THEN @ + 1 ELSE @,
            !.bucket_totals[bucket_idx + 1] = @ + 1]

ECEState(n) ==
    [n_buckets |-> n,
     bucket_totals |-> [i \in 1..n |-> 0],
     bucket_correct |-> [i \in 1..n |-> 0],
     response_cache |-> <<>>, cache_responses |-> FALSE]

InitECE ==
    /\ metric = "InContextLearningLMExpectedCalibrationError"
    /\ \E n \in 1..MaxBuckets : state = ECEState(n)
    /\ rank_state = <<>>
    /\ calls = <<>>
    /\ args = [op |-> "__init__"]
    /\ before = NoState
    /\ ret = "ok"

ECEUpdate ==
    /\ SumSeq(state.bucket_totals) < MaxTotal
    /\ \E x \in ECESamples :
         /\ args' = [op |-> "update", sample |-> x]
         /\ before' = state
         /\ ret' = "ok"
         /\ state' = lm_ece_update(state, x)
    /\ UNCHANGED <<metric, rank_state, calls>>

\* a plausible slip: the test for an empty bucket is missing
ece_bucket_unguarded(st, total_obs, i) ==
    LET acc_bucket_i == RDiv(RInt(st.bucket_correct[i + 1]), RInt(st.bucket_totals[i + 1]))
        upper_bound == Rat(i + 1, st.n_buckets)
        lower_bound == Rat(i, st.n_buckets)
        conf_bucket_i == RDiv(RAdd(upper_bound, lower_bound), RInt(2))
    IN  RMul(RDiv(RInt(st.bucket_totals[i + 1]), RInt(total_obs)),
             RAbs(RSub(acc_bucket_i, conf_bucket_i)))

\* one pass of the loop of compute: what bucket i (from 0) adds to result
ece_bucket(st, total_obs, i) ==
    IF st.bucket_totals[i + 1] = 0 THEN RInt(0)
    ELSE LET acc_bucket_i == RDiv(RInt(st.bucket_correct[i + 1]),
                                  RInt(st.bucket_totals[i + 1]))
             upper_bound == Rat(i + 1, st.n_buckets)
             lower_bound == Rat(i, st.n_buckets)
             conf_bucket_i == RDiv(RAdd(upper_bound, lower_bound), RInt(2))
         IN  RMul(RDiv(RInt(st.bucket_totals[i + 1]), RInt(total_obs)),
                  RAbs(RSub(acc_bucket_i, conf_bucket_i)))

\* result after the loop has run over buckets 0 .. i - 1
RECURSIVE ece_result(_, _, _)
ece_result(st, total_obs, i) ==
    IF i = 0 THEN RInt(0)
    ELSE RAdd(ece_result(st, total_obs, i - 1), ece_bucket(st, total_obs, i - 1))

ECECompute ==
    /\ args.op # "compute"
    /\ args' = [op |-> "compute"]
    /\ before' = state
    /\ ret' = ece_result(state, SumSeq(state.bucket_totals), state.n_buckets)
    /\ UNCHANGED <<metric, state, rank_state, calls>>

NextECE == ECEUpdate \/ ECECompute

SpecECE == InitECE /\ [][NextECE]_vars

\* the buckets that hold at least one observation, numbered from 0
NonEmptyBuckets == {i \in 0..(state.n_buckets - 1) : state.bucket_totals[i + 1] > 0}

\* the weighted gaps of the non-empty buckets, as a sequence over all buckets
WeightedGaps ==
    [j \in 1..state.n_buckets |->
        IF j - 1 \in NonEmptyBuckets
        THEN RMul(Rat(state.bucket_totals[j], SumSeq(state.bucket_totals)),
                  RAbs(RSub(Rat(state.bucket_correct[j], state.bucket_totals[j]),
                            Rat(2 * (j - 1) + 1, 2 * state.n_buckets))))
        ELSE RInt(0)]

\* C7: compute returns the sum over the buckets i with bucket_totals[i] > 0 of
\* (bucket_totals[i] / sum(bucket_totals)) *
\* |bucket_correct[i] / bucket_totals[i] - (2i + 1) / (2 * n_buckets)|;
\* empty buckets add nothing and with no observation at all the result is 0.
C7_ECEIsWeightedGap ==
    args.op = "compute" =>
        /\ ret = RSum(WeightedGaps)
        /\ ~IsNaN(ret)
        /\ (SumSeq(state.bucket_totals) = 0 => ret = RInt(0))

\* compute ran over two filled buckets and an empty one and found a gap
C7_Witness ==
    /\ args.op = "compute"
    /\ state.n_buckets = 3
    /\ NonEmptyBuckets = {0, 2}
    /\ state.bucket_correct[3] = 1
    /\ RLe(Rat(1, 4), ret)

----------------------------------------------------------------------------
(* InContextLearningLLMAsAJudge                                            *)
(* Strings are sequences of one-character strings.                         *)

\* str.endswith and the `in` operator of str
endswith(s, suffix) ==
    /\ Len(suffix) <= Len(s)
    /\ SubSeq(s, Len(s) - Len(suffix) + 1, Len(s)) = suffix
contains(s, sub) ==
    \E i \in 1..(Len(s) - Len(sub) + 1) : SubSeq(s, i, i + Len(sub) - 1) = sub

\* a plausible slip: `'Yes' in result` where result.endswith('Yes') is meant
ends_with_yes_in(result) == contains(result, <<"Y", "e", "s">>)

ends_with_yes(result) == endswith(result, <<"Y", "e", "s">>)
ends_with_no(result) == endswith(result, <<"N", "o">>)

\* what the judge model may answer (response.choices[0].message.content):
\* "Yes", "No", "Yes.", "", "No Yes", "Yes or No", "Invalid"
JudgeResponses ==
    { <<"Y", "e", "s">>,
      <<"N", "o">>,
      <<"Y", "e", "s", ".">>,
      <<>>,
      <<"N", "o", " ", "Y", "e", "s">>,
      <<"Y", "e", "s", " ", "o", "r", " ", "N", "o">>,
      <<"I", "n", "v", "a", "l", "i", "d">> }

\* what one pass of the loop of update adds to (correct, invalid, total)
RECURSIVE judge_loop(_, _)
judge_loop(st, results) ==
    IF results = <<>> THEN st
    ELSE LET result == Head(results)
             scored ==
                 IF ends_with_yes(result) THEN [st EXCEPT !.correct = @ + 1]
                 ELSE IF ends_with_no(result) THEN st
                 ELSE [st EXCEPT !.invalid_judge_response = @ + 1]
         IN  judge_loop([scored EXCEPT !.total = @ + 1], Tail(results))

\* the openai package may be missing: init_openai then raises
InitLLMAsAJudge ==
    /\ metric = "InContextLearningLLMAsAJudge"
    /\ \E installed \in BOOLEAN :
           state = [correct |-> 0, invalid_judge_response |-> 0, total |-> 0,
                    client |-> "None", openai_installed |-> installed]
    /\ rank_state = <<>>
    /\ calls = <<>>
    /\ args = [op |-> "__init__"]
    /\ before = NoState
    /\ ret = "ok"

\* update: one judge call per (output, answer) pair; results are its answers
LLMAsAJudgeUpdate ==
    /\ state.total < MaxTotal
    /\ \E len \in 1..2 : \E results \in [1..len -> JudgeResponses] :
         /\ args' = [op |-> "update", results |-> results]
         /\ before' = state
         /\ IF state.client = "None" /\ ~state.openai_installed
            THEN /\ ret' = "MissingConditionalImportError"
                 /\ state' = state
            ELSE /\ ret' = "ok"
                 /\ state' = [judge_loop(state, results) EXCEPT !.client = "None"]
    /\ UNCHANGED <<metric, rank_state, calls>>

LLMAsAJudgeCompute ==
    /\ args.op # "compute"
    /\ args' = [op |-> "compute"]
    /\ before' = state
    /\ ret' = RDiv(RInt(state.correct), RInt(state.total))
    /\ UNCHANGED <<metric, state, rank_state, calls>>

NextLLMAsAJudge == LLMAsAJudgeUpdate \/ LLMAsAJudgeCompute

SpecLLMAsAJudge == InitLLMAsAJudge /\ [][NextLLMAsAJudge]_vars

\* the last characters of a judge response spell Yes / No
SaysYes(r) == Len(r) >= 3 /\ r[Len(r) - 2] = "Y" /\ r[Len(r) - 1] = "e" /\ r[Len(r)] = "s"
SaysNo(r) == Len(r) >= 2 /\ r[Len(r) - 1] = "N" /\ r[Len(r)] = "o"

\* C3: update never raises because of an ill-formatted judge response; every
\* (output, answer) pair adds exactly 1 to total and does exactly one of: add 1
\* to correct (response ends with Yes), nothing (ends with No), add 1 to
\* invalid_judge_response (anything else); so correct + invalid <= total.
C3_JudgeResponsesCounted ==
    /\ state.correct + state.invalid_judge_response <= state.total
    /\ args.op = "update" =>
         LET rs == args.results
         IN  /\ (ret # "ok" => ~before.openai_installed /\ state = before)
             /\ ret = "ok" =>
                  /\ state.total = before.total + Len(rs)
                  /\ state.correct = before.correct +
                         Cardinality({i \in DOMAIN rs : SaysYes(rs[i])})
                  /\ state.invalid_judge_response = before.invalid_judge_response +
                         Cardinality({i \in DOMAIN rs : ~SaysYes(rs[i]) /\ ~SaysNo(rs[i])})
                  /\ \A i \in DOMAIN rs : ~(SaysYes(rs[i]) /\ SaysNo(rs[i]))

\* one update judged "Yes." (ill-formatted) and "Yes or No" (ends with No)
C3_Witness ==
    /\ UpdateDone
    /\ args.results = << <<"Y", "e", "s", ".">>,
                         <<"Y", "e", "s", " ", "o", "r", " ", "N", "o">> >>
    /\ state.invalid_judge_response = before.invalid_judge_response + 1
    /\ state.correct = before.correct
    /\ state.total = before.total + 2

----------------------------------------------------------------------------
(* MTBenchJudge                                                            *)

Digits == <<"0", "1", "2", "3", "4", "5", "6", "7", "8", "9">>
IsDigit(c) == \E d \in DOMAIN Digits : Digits[d] = c
DigitVal(c) == (CHOOSE d \in DOMAIN Digits : Digits[d] = c) - 1

\* the character at index i of s, "" past its end
CharAt(s, i) == IF i \in DOMAIN s THEN s[i] ELSE ""

\* the first index from i on that holds no digit
RECURSIVE DigitsEnd(_, _)
DigitsEnd(s, i) == IF IsDigit(CharAt(s, i)) THEN DigitsEnd(s, i + 1) ELSE i

\* where a match of \d+\.?\d* that starts at i ends (one past its last character)
NumberEnd(s, i) ==
    LET j == DigitsEnd(s, i)
    IN  IF CharAt(s, j) = "." THEN DigitsEnd(s, j + 1) ELSE j

\* ONE_SCORE_PATTERN (brackets = 2) and ONE_SCORE_PATTERN_BACKUP (brackets = 1)
\* match at index p of s
MatchesAt(s, p, brackets) ==
    /\ \A b \in 0..(brackets - 1) : CharAt(s, p + b) = "["
    /\ IsDigit(CharAt(s, p + brackets))
    /\ \A b \in 0..(brackets - 1) : CharAt(s, NumberEnd(s, p + brackets) + b) = "]"

\* re.search(pattern, s): group 1 of the leftmost match, <<>> for no match
re_search(s, brackets) ==
    IF \E p \in DOMAIN s : MatchesAt(s, p, brackets)
    THEN LET p == CHOOSE q \in DOMAIN s :
                      /\ MatchesAt(s, q, brackets)
                      /\ \A o \in 1..(q - 1) : ~MatchesAt(s, o, brackets)
         IN  SubSeq(s, p + brackets, NumberEnd(s, p + brackets) - 1)
    ELSE <<>>

\* match = re.search(ONE_SCORE_PATTERN, result) or the backup pattern
score_match(result) ==
    IF re_search(result, 2) # <<>> THEN re_search(result, 2) ELSE re_search(result, 1)

\* the value of a string of digits, and 10 ** n
RECURSIVE Decimal(_)
Decimal(ds) == IF ds = <<>> THEN 0
               ELSE 10 * Decimal(SubSeq(ds, 1, Len(ds) - 1)) + DigitVal(ds[Len(ds)])
RECURSIVE Pow10(_)
Pow10(n) == IF n = 0 THEN 1 ELSE 10 * Pow10(n - 1)

\* ast.literal_eval of a group matched by \d+\.?\d*: a float when it holds a
\* point; otherwise an int, and Python rejects a decimal integer literal that
\* starts with 0 unless all its digits are 0
literal_eval(group) ==
    IF \E i \in DOMAIN group : group[i] = "."
    THEN LET dot == CHOOSE i \in DOMAIN group : group[i] = "."
             whole == SubSeq(group, 1, dot - 1)
             frac == SubSeq(group, dot + 1, Len(group))
         IN  [raised |-> FALSE,
              value |-> Rat(Decimal(whole) * Pow10(Len(frac)) + Decimal(frac),
                            Pow10(Len(frac)))]
    ELSE IF Len(group) > 1 /\ group[1] = "0" /\ \E i \in DOMAIN group : group[i] # "0"
    THEN [raised |-> TRUE, value |-> NaN]
    ELSE [raised |-> FALSE, value |-> RInt(Decimal(group))]

update_category_score(st, category, score) ==
    CASE category = "math" ->
           [st EXCEPT !.math_total = @ + 1, !.math_score = RAdd(@, score)]
      [] category = "writing" ->
           [st EXCEPT !.writing_total = @ + 1, !.writing_score = RAdd(@, score)]
      [] category = "roleplay" ->
           [st EXCEPT !.roleplay_total = @ + 1, !.roleplay_score = RAdd(@, score)]
      [] category = "reasoning" ->
           [st EXCEPT !.reasoning_total = @ + 1, !.reasoning_score = RAdd(@, score)]
      [] category = "coding" ->
           [st EXCEPT !.coding_total = @ + 1, !.coding_score = RAdd(@, score)]
      [] category = "extraction" ->
           [st EXCEPT !.extraction_total = @ + 1, !.extraction_score = RAdd(@, score)]
      [] category = "stem" ->
           [st EXCEPT !.stem_total = @ + 1, !.stem_score = RAdd(@, score)]
      [] category = "humanities" ->
           [st EXCEPT !.humanities_total = @ + 1, !.humanities_score = RAdd(@, score)]
      [] OTHER -> st

\* the loop of update over the judged generations; it stops where literal_eval
\* raises, with everything before that point already accumulated
RECURSIVE mtbench_loop(_, _)
mtbench_loop(st, items) ==
    IF items = <<>> THEN [st |-> st, raised |-> FALSE]
    ELSE LET result == Head(items).result
             match == score_match(result)
             score == literal_eval(match)
         IN  IF match # <<>> /\ score.raised
             THEN [st |-> st, raised |-> TRUE]
             ELSE LET scored ==
                          IF match # <<>>
                          THEN update_category_score(
                                   [st EXCEPT !.all_scores = RAdd(@, score.value)],
                                   Head(items).category, score.value)
                          ELSE [st EXCEPT !.invalid_judge_response = @ + 1]
                  IN  mtbench_loop([scored EXCEPT !.total = @ + 1], Tail(items))

\* what the judge may answer: "[[5]]", "[7]", "[9] [[5]]", "[[5.0]]",
\* "[[07]]" and "good" (no rating)
MTBenchResponses ==
    { <<"[", "[", "5", "]", "]">>,
      <<"[", "7", "]">>,
      <<"[", "9", "]", " ", "[", "[", "5", "]", "]">>,
      <<"[", "[", "5", ".", "0", "]", "]">>,
      <<"[", "[", "0", "7", "]", "]">>,
      <<"g", "o", "o", "d">> }

\* one judged generation with any category, or two of an unlisted category
MTBenchBatches ==
    [1..1 -> [result : MTBenchResponses, category : {"math", "writing", "other"}]]
    \cup [1..2 -> [result : MTBenchResponses, category : {"other"}]]

InitMTBenchJudge ==
    /\ metric = "MTBenchJudge"
    /\ \E installed \in BOOLEAN :
           state = [invalid_judge_response |-> 0, all_scores |-> RInt(0), total |-> 0,
                    math_score |-> RInt(0), math_total |-> 0,
                    reasoning_score |-> RInt(0), reasoning_total |-> 0,
                    stem_score |-> RInt(0), stem_total |-> 0,
                    humanities_score |-> RInt(0), humanities_total |-> 0,
                    extraction_score |-> RInt(0), extraction_total |-> 0,
                    coding_score |-> RInt(0), coding_total |-> 0,
                    roleplay_score |-> RInt(0), roleplay_total |-> 0,
                    writing_score |-> RInt(0), writing_total |-> 0,
                    client |-> "None", openai_installed |-> installed]
    /\ rank_state = <<>>
    /\ calls = <<>>
    /\ args = [op |-> "__init__"]
    /\ before = NoState
    /\ ret = "ok"

MTBenchJudgeUpdate ==
    /\ state.total < MaxTotal
    /\ \E items \in MTBenchBatches :
         /\ args' = [op |-> "update", items |-> items]
         /\ before' = state
         /\ IF state.client = "None" /\ ~state.openai_installed
            THEN /\ ret' = "MissingConditionalImportError"
                 /\ state' = state
            ELSE LET done == mtbench_loop(state, items)
                 IN  IF done.raised
                     THEN /\ ret' = "SyntaxError"
                          /\ state' = [done.st EXCEPT !.client = "OpenAI"]
                     ELSE /\ ret' = "ok"
                          /\ state' = [done.st EXCEPT !.client = "None"]
    /\ UNCHANGED <<metric, rank_state, calls>>

MTBenchJudgeCompute ==
    /\ args.op # "compute"
    /\ args' = [op |-> "compute"]
    /\ before' = state
    /\ ret' = RDiv(state.all_scores, RInt(state.total))
    /\ UNCHANGED <<metric, state, rank_state, calls>>

NextMTBenchJudge == MTBenchJudgeUpdate \/ MTBenchJudgeCompute

SpecMTBenchJudge == InitMTBenchJudge /\ [][NextMTBenchJudge]_vars

\* a judge response holds a rating: a number between double or single brackets
HasRating(r) == \E p \in DOMAIN r : MatchesAt(r, p, 2) \/ MatchesAt(r, p, 1)

\* the number written in the rating, read as a decimal numeral
RatingValue(r) ==
    LET g == score_match(r)
        digits == SelectSeq(g, IsDigit)
        places == IF \E i \in DOMAIN g : g[i] = "."
                  THEN Len(g) - (CHOOSE i \in DOMAIN g : g[i] = ".")
                  ELSE 0
    IN  Rat(Decimal(digits), Pow10(places))

\* C4: in update a response without a rating adds 1 to invalid_judge_response
\* and to total and leaves all_scores alone; a response with a rating adds the
\* parsed score to all_scores and 1 to total and leaves invalid_judge_response
\* alone; so total is the number of scored responses plus the invalid ones.
C4_RatedResponsesScored ==
    (args.op = "update" /\ ret # "MissingConditionalImportError") =>
        LET items == args.items
            rated == {i \in DOMAIN items : HasRating(items[i].result)}
        IN  /\ ret = "ok"
            /\ state.total = before.total + Len(items)
            /\ state.invalid_judge_response =
                   before.invalid_judge_response + Len(items) - Cardinality(rated)
            /\ state.all_scores =
                   RAdd(before.all_scores,
                        RSum([i \in DOMAIN items |->
                                 IF i \in rated THEN RatingValue(items[i].result)
                                 ELSE RInt(0)]))

----------------------------------------------------------------------------
(* InContextLearningQAAccuracy                                             *)

Uppercase == <<"A", "B", "C", "D", "E", "F", "G", "H", "I", "J", "K", "L", "M",
               "N", "O", "P", "Q", "R", "S", "T", "U", "V", "W", "X", "Y", "Z">>
Lowercase == <<"a", "b", "c", "d", "e", "f", "g", "h", "i", "j", "k", "l", "m",
               "n", "o", "p", "q", "r", "s", "t", "u", "v", "w", "x", "y", "z">>

\* string.punctuation as handle_punc excludes it (a string of this language
\* cannot hold the backquote, which no input of the model contains)
Punctuation ==
    {"!", "\"", "#", "$", "%", "&", "'", "(", ")", "*", "+", ",", "-", ".", "/",
     ":", ";", "<", "=", ">", "?", "@", "[", "\\", "]", "^", "_", "{", "|",
     "}", "~"}

\* \w of a regular expression
IsWordChar(c) ==
    \/ \E i \in DOMAIN Lowercase : c = Lowercase[i] \/ c = Uppercase[i]
    \/ IsDigit(c)
    \/ c = "_"

replace_underscore(text) == [i \in DOMAIN text |-> IF text[i] = "_" THEN " " ELSE text[i]]

\* a plausible slip: the text keeps its case
lower_unchanged(text) == text

lower(text) ==
    [i \in DOMAIN text |->
        IF \E u \in DOMAIN Uppercase : Uppercase[u] = text[i]
        THEN Lowercase[CHOOSE u \in DOMAIN Uppercase : Uppercase[u] = text[i]]
        ELSE text[i]]

handle_punc(text) == [i \in DOMAIN text |-> IF text[i] \in Punctuation THEN " " ELSE text[i]]

Articles == <<<<"a">>, <<"a", "n">>, <<"t", "h", "e">>>>

\* \b(a|an|the)\b matches text at index i with article number k
ArticleAt(text, i, k) ==
    LET w == Articles[k]
    IN  /\ i + Len(w) - 1 <= Len(text)
        /\ SubSeq(text, i, i + Len(w) - 1) = w
        /\ ~IsWordChar(CharAt(text, i - 1))
        /\ ~IsWordChar(CharAt(text, i + Len(w)))

\* re.sub(r'\b(a|an|the)\b', ' ', text), from index i on
RECURSIVE remove_articles_from(_, _)
remove_articles_from(text, i) ==
    IF i > Len(text) THEN <<>>
    ELSE IF \E k \in DOMAIN Articles : ArticleAt(text, i, k)
    THEN LET k == CHOOSE j \in DOMAIN Articles : ArticleAt(text, i, j)
         IN  <<" ">> \o remove_articles_from(text, i + Len(Articles[k]))
    ELSE <<text[i]>> \o remove_articles_from(text, i + 1)

remove_articles(text) == remove_articles_from(text, 1)

\* ' '.join(text.split()): runs of blanks become one blank, none at either end
RECURSIVE white_space_fix(_)
white_space_fix(text) ==
    IF text = <<>> THEN <<>>
    ELSE IF Head(text) = " " THEN white_space_fix(Tail(text))
    ELSE LET rest == white_space_fix(
                         IF Len(text) > 1 /\ text[2] = " " THEN Tail(Tail(text))
                         ELSE Tail(text))
         IN  IF Len(text) > 1 /\ text[2] = " " /\ rest # <<>>
             THEN <<Head(text), " ">> \o rest
             ELSE <<Head(text)>> \o rest

normalize_answer(answer) ==
    white_space_fix(remove_articles(handle_punc(lower(replace_underscore(answer)))))

\* a plausible slip: receiver and argument exchanged
startswith_exchanged(s, prefix) ==
    Len(s) <= Len(prefix) /\ SubSeq(prefix, 1, Len(s)) = s

\* str.startswith
startswith(s, prefix) ==
    Len(prefix) <= Len(s) /\ SubSeq(s, 1, Len(prefix)) = prefix

\* the body of the loop of update for one sample: is it counted correct?
\* (no stopping_criteria and no cot_delimiter in the batch)
qa_sample_correct(sample_output, sample_labels, do_normalization) ==
    LET final_answer == sample_output
        cleaned_final_answer ==
            IF do_normalization THEN normalize_answer(final_answer) ELSE final_answer
        cleaned_sample_labels ==
            IF do_normalization
            THEN {normalize_answer(sample_labels[l]) : l \in DOMAIN sample_labels}
            ELSE {sample_labels[l] : l \in DOMAIN sample_labels}
    IN  \E label \in cleaned_sample_labels : startswith(cleaned_final_answer, label)

\* update: the loop over the samples; every sample is appended to response_cache
RECURSIVE qa_accuracy_update(_, _, _, _)
qa_accuracy_update(st, outputs, labels, do_normalization) ==
    IF outputs = <<>> \/ labels = <<>> THEN st
    ELSE LET correct == qa_sample_correct(Head(outputs), Head(labels), do_normalization)
             counted == IF correct THEN [st EXCEPT !.correct = @ + 1] ELSE st
             cached == [counted EXCEPT
                           !.response_cache = Append(@, [correct |-> correct])]
         IN  qa_accuracy_update([cached EXCEPT !.total = @ + 1],
                                Tail(outputs), Tail(labels), do_normalization)

\* model outputs "The cat", "cat_s", "ca", "Dog";
\* answer aliases ["cat"], ["a cat", "dog"], ["the"]
QAOutputs ==
    { <<"T", "h", "e", " ", "c", "a", "t">>,
      <<"c", "a", "t", "_", "s">>,
      <<"c", "a">>,
      <<"D", "o", "g">> }
QALabels ==
    { << <<"c", "a", "t">> >>,
      << <<"a", " ", "c", "a", "t">>, <<"d", "o", "g">> >>,
      << <<"t", "h", "e">> >> }
QABatches ==
    [outputs : [1..1 -> QAOutputs], labels : [1..1 -> QALabels],
     do_normalization : BOOLEAN]

InitQAAccuracy ==
    /\ metric = "InContextLearningQAAccuracy"
    /\ state = ICLCounterState(FALSE)
    /\ rank_state = <<>>
    /\ calls = <<>>
    /\ args = [op |-> "__init__"]
    /\ before = NoState
    /\ ret = "ok"

QAAccuracyUpdate ==
    /\ state.total < MaxTotal
    /\ \E x \in QABatches :
         /\ args' = [op |-> "update", outputs |-> x.outputs, labels |-> x.labels,
                     do_normalization |-> x.do_normalization]
         /\ before' = state
         /\ ret' = "ok"
         /\ state' = qa_accuracy_update(state, x.outputs, x.labels, x.do_normalization)
    /\ UNCHANGED <<metric, rank_state, calls>>

QAAccuracyCompute ==
    /\ args.op # "compute"
    /\ args' = [op |-> "compute"]
    /\ before' = state
    /\ ret' = RDiv(RInt(state.correct), RInt(state.total))
    /\ UNCHANGED <<metric, state, rank_state, calls>>

NextQAAccuracy == QAAccuracyUpdate \/ QAAccuracyCompute

SpecQAAccuracy == InitQAAccuracy /\ [][NextQAAccuracy]_vars

\* p is a prefix of s, position by position
IsPrefixOf(p, s) == Len(p) <= Len(s) /\ \A i \in 1..Len(p) : s[i] = p[i]

\* the strings update compares for a sample of the last update
Cleaned(text) == IF args.do_normalization THEN normalize_answer(text) ELSE text

\* was sample i of the last update counted correct?
CountedCorrect(i) == state.response_cache[Len(before.response_cache) + i].correct

IsNormalized(s) ==
    /\ \A i \in DOMAIN s :
          /\ s[i] \notin Punctuation
          /\ \A u \in DOMAIN Uppercase : s[i] # Uppercase[u]
          /\ s[i] = " " => (i > 1 /\ i < Len(s) /\ s[i + 1] # " ")
    /\ \A i \in DOMAIN s : \A j \in i..Len(s) :
          ((i = 1 \/ s[i - 1] = " ") /\ (j = Len(s) \/ s[j + 1] = " ")) =>
              \A k \in DOMAIN Articles : SubSeq(s, i, j) # Articles[k]

----------------------------------------------------------------------------
(* Distributed runs: the same metric on every rank, updated rank by rank   *)
(* and synchronized by InContextLearningMetric.sync / the host's sync.     *)
(* `state` is a single accumulator that receives every batch.              *)

Ranks == 1..NRanks

DistMetrics ==
    {"MaskedAccuracy", "InContextLearningQAAccuracy", "InContextLearningLMAccuracy",
     "InContextLearningMultipleChoiceAccuracy",
     "InContextLearningLMExpectedCalibrationError"}

\* the classes derived from InContextLearningMetric, which overrides sync
IsICLMetric(m) == m # "MaskedAccuracy"

\* the states a class registers with add_state
StateNames(m) ==
    IF m = "MaskedAccuracy" THEN {"correct", "total"}
    ELSE IF m = "InContextLearningLMExpectedCalibrationError"
    THEN {"response_cache", "bucket_totals", "bucket_correct"}
    ELSE {"response_cache", "correct", "total"}

\* a plausible slip: the counters are registered with 'mean'
dist_reduce_fx_mean(m, name) == IF name = "response_cache" THEN "None" ELSE "mean"

\* the dist_reduce_fx given to add_state
dist_reduce_fx(m, name) == IF name = "response_cache" THEN "None" ELSE "sum"

NumericStates(m) == StateNames(m) \ {"response_cache"}

IsVector(name) == name \in {"bucket_totals", "bucket_correct"}

\* element-wise sum of the values one state holds on the ranks 1 .. r
RECURSIVE SumOverRanks(_, _, _)
SumOverRanks(values, name, r) ==
    IF r = 0
    THEN (IF IsVector(name) THEN [i \in DOMAIN values[1] |-> 0] ELSE 0)
    ELSE LET rest == SumOverRanks(values, name, r - 1)
         IN  IF IsVector(name)
             THEN [i \in DOMAIN values[r] |-> rest[i] + values[r][i]]
             ELSE rest + values[r]

\* what the host leaves in a state after gathering it from every rank and
\* applying the registered reduction (None keeps the local value)
reduce_state(fx, values, name, local) ==
    IF fx = "sum" THEN SumOverRanks(values, name, Len(values))
    ELSE IF fx = "mean"
    THEN LET total == SumOverRanks(values, name, Len(values))
         IN  IF IsVector(name) THEN [i \in DOMAIN total |-> total[i] \div Len(values)]
             ELSE total \div Len(values)
    ELSE local

\* [item for row in gathered_response_cache for item in row]
RECURSIVE flatten(_)
flatten(gathered) ==
    IF gathered = <<>> THEN <<>> ELSE Head(gathered) \o flatten(Tail(gathered))

\* a plausible slip: only the first rank's rows are kept
flattened_first_only(gathered) == Head(gathered)

\* flattened_gathered_response_cache, from what all_gather_object filled in
flattened_gathered_response_cache(gathered) == flatten(gathered)

DistInitialState(m, cache_responses) ==
    IF m = "MaskedAccuracy" THEN MaskedAccuracyState
    ELSE IF m = "InContextLearningLMExpectedCalibrationError" THEN ECEState(2)
    ELSE ICLCounterState(cache_responses)

\* the batches of a distributed run: a sample of each class's batches that
\* keeps every outcome of its update (correct, wrong, masked, each bucket)
DistInputs(m) ==
    CASE m = "MaskedAccuracy" ->
           {x \in MaskedAccuracyInputs : \A i \in DOMAIN x.preds : x.preds[i] = <<0, 1>>}
      [] m = "InContextLearningQAAccuracy" -> QABatches
      [] m = "InContextLearningLMAccuracy" ->
           {x \in LMBatches : \A i \in DOMAIN x : x[i].logits = <<<<1, 0>>, <<0, 1>>>>}
      [] m = "InContextLearningMultipleChoiceAccuracy" ->
           {x \in MCBatches : /\ x.choice_groupings # <<<<0, 3>>>>
                              /\ x.perplexities[1] = 1
                              /\ x.perplexities[2] = 2}
      [] m = "InContextLearningLMExpectedCalibrationError" ->
           {x \in ECESamples : Len(x.targ) = 1 \/ x.targ = <<1, 1>>}

\* update of class m
DistApply(m, st, x) ==
    CASE m = "MaskedAccuracy" -> masked_accuracy_update(st, x.preds, x.target)
      [] m = "InContextLearningQAAccuracy" ->
           qa_accuracy_update(st, x.outputs, x.labels, x.do_normalization)
      [] m = "InContextLearningLMAccuracy" -> lm_accuracy_update(st, x)
      [] m = "InContextLearningMultipleChoiceAccuracy" -> mc_accuracy_update(st, x)
      [] m = "InContextLearningLMExpectedCalibrationError" -> lm_ece_update(st, x)

Observations(m, st) ==
    IF m = "InContextLearningLMExpectedCalibrationError"
    THEN SumSeq(st.bucket_totals) ELSE st.total

InitDist ==
    /\ metric \in DistMetrics
    /\ \E cache_responses \in BOOLEAN :
         /\ state = DistInitialState(metric, cache_responses)
         /\ rank_state = [r \in Ranks |->
                             [st |-> DistInitialState(metric, cache_responses),
                              pc |-> "idle"]]
    /\ calls = <<>>
    /\ args = [op |-> "__init__"]
    /\ before = NoState
    /\ ret = "ok"

\* rank r receives a batch; the single accumulator receives it too
DistUpdate(r) ==
    /\ rank_state[r].pc = "idle"
    /\ Observations(metric, state) < MaxTotal
    /\ \E x \in DistInputs(metric) :
         /\ rank_state' = [rank_state EXCEPT ![r].st = DistApply(metric, @, x)]
         /\ state' = DistApply(metric, state, x)
    /\ args' = [op |-> "update", rank |-> r]
    /\ ret' = "ok"
    /\ UNCHANGED <<metric, calls, before>>

\* rank r calls sync(should_sync).  InContextLearningMetric.sync does nothing
\* for should_sync = False and otherwise enters torch.distributed.barrier;
\* MaskedAccuracy inherits the host's sync.
SyncCall(r) ==
    /\ rank_state[r].pc = "idle"
    /\ \E should_sync \in BOOLEAN :
         /\ args' = [op |-> "sync", rank |-> r, should_sync |-> should_sync]
         /\ IF ~should_sync
            THEN UNCHANGED <<rank_state, calls>>
            ELSE IF IsICLMetric(metric)
            THEN /\ calls' = Append(calls, <<r, "InContextLearningMetric", "barrier">>)
                 /\ rank_state' = [rank_state EXCEPT ![r].pc = "barrier"]
            ELSE /\ calls' = Append(calls, <<r, "torchmetrics", "sync">>)
                 /\ rank_state' = [rank_state EXCEPT ![r].pc = "super_sync"]
    /\ ret' = "ok"
    /\ UNCHANGED <<metric, state, before>>

\* the calls every rank issues once the barrier lets it pass
RECURSIVE GatherCalls(_)
GatherCalls(r) ==
    IF r = 0 THEN <<>>
    ELSE GatherCalls(r - 1) \o
         << <<r, "InContextLearningMetric", "all_gather_object">>,
            <<r, "torchmetrics", "sync">> >>

\* every rank has reached the barrier: all_gather_object hands every rank all
\* the response caches, each rank keeps their concatenation and calls
\* super().sync
GatherResponseCache ==
    /\ \A r \in Ranks : rank_state[r].pc = "barrier"
    /\ LET gathered_response_cache == [r \in Ranks |-> rank_state[r].st.response_cache]
       IN  /\ rank_state' =
                 [r \in Ranks |->
                     [st |-> [rank_state[r].st EXCEPT !.response_cache =
                                 flattened_gathered_response_cache(gathered_response_cache)],
                      pc |-> "super_sync"]]
           /\ before' = [response_cache |-> gathered_response_cache]
    /\ calls' = calls \o GatherCalls(NRanks)
    /\ args' = [op |-> "all_gather_object"]
    /\ ret' = "ok"
    /\ UNCHANGED <<metric, state>>

\* every rank is inside the host's sync: each registered state is gathered and
\* reduced with its dist_reduce_fx
HostSync ==
    /\ \A r \in Ranks : rank_state[r].pc = "super_sync"
    /\ rank_state' =
           [r \in Ranks |->
               [st |-> [name \in DOMAIN rank_state[r].st |->
                           IF name \in StateNames(metric)
                           THEN reduce_state(dist_reduce_fx(metric, name),
                                             [q \in Ranks |-> rank_state[q].st[name]],
                                             name, rank_state[r].st[name])
                           ELSE rank_state[r].st[name]],
                pc |-> "synced"]]
    /\ args' = [op |-> "super_sync"]
    /\ ret' = "ok"
    /\ UNCHANGED <<metric, state, calls, before>>

NextDist ==
    \/ \E r \in Ranks : DistUpdate(r)
    \/ \E r \in Ranks : SyncCall(r)
    \/ GatherResponseCache
    \/ HostSync

SpecDist == InitDist /\ [][NextDist]_vars

Synced == \A r \in Ranks : rank_state[r].pc = "synced"

\* C1: every numeric state of MaskedAccuracy, the QA, LM and multiple-choice
\* accuracies and the calibration-error histograms is registered with 'sum',
\* and however the batches are spread over the ranks and ordered, the
\* element-wise sum of the per-rank states is the state of a single accumulator
\* that received all the batches; the reduction leaves exactly that state on
\* every rank.
C1_SumOfRanksIsSingleAccumulator ==
    \A name \in NumericStates(metric) :
        /\ dist_reduce_fx(metric, name) = "sum"
        /\ ~Synced =>
             SumOverRanks([r \in Ranks |-> rank_state[r].st[name]], name, NRanks)
                 = state[name]
        /\ Synced => \A r \in Ranks : rank_state[r].st[name] = state[name]

\* the batches were split over two ranks unevenly and then reduced
C1_Witness ==
    /\ Synced
    /\ Observations(metric, state) >= 3
    /\ calls # <<>>
    /\ metric = "InContextLearningLMExpectedCalibrationError"
    /\ state.bucket_correct[2] >= 1

\* the calls of rank r, in the order it issued them
RankCalls(r) ==
    LET mine == SelectSeq(calls, LAMBDA c : c[1] = r)
    IN  [i \in DOMAIN mine |-> <<mine[i][2], mine[i][3]>>]

IsPrefix(s, t) == Len(s) <= Len(t) /\ SubSeq(t, 1, Len(s)) = s

\* C2 as stated: no metric class performs a barrier or an all-gather itself;
\* every collective of a sync is issued by the host framework.
C2_OnlyHostSynchronizes ==
    \A i \in DOMAIN calls : calls[i][2] = "torchmetrics"

\* C2 amended: MaskedAccuracy leaves synchronization to the host's sync, but the
\* classes derived from InContextLearningMetric issue, on every rank whose sync
\* is called with should_sync true, one torch.distributed.barrier and then one
\* all_gather_object of response_cache themselves, keep the concatenation of
\* all ranks' caches in rank order, and only then call the host's sync, which
\* reduces the numeric states by their registered reduction.
C2_ICLMetricsGatherResponseCache ==
    /\ \A r \in Ranks :
         IsPrefix(RankCalls(r),
                  IF IsICLMetric(metric)
                  THEN << <<"InContextLearningMetric", "barrier">>,
                          <<"InContextLearningMetric", "all_gather_object">>,
                          <<"torchmetrics", "sync">> >>
                  ELSE << <<"torchmetrics", "sync">> >>)
    /\ \A r \in Ranks :
         rank_state[r].pc \in {"super_sync", "synced"} /\ IsICLMetric(metric) =>
             /\ Len(RankCalls(r)) = 3
             /\ Len(rank_state[r].st.response_cache) =
                    SumSeq([p \in Ranks |-> Len(before.response_cache[p])])
             /\ \A q \in Ranks : \A i \in DOMAIN before.response_cache[q] :
                    rank_state[r].st.response_cache[
                        SumSeq([p \in 1..(q - 1) |-> Len(before.response_cache[p])]) + i]
                      = before.response_cache[q][i]
             /\ Len(rank_state[r].st.response_cache) = Len(state.response_cache)

\* both ranks of an in-context-learning metric cached rows, passed the barrier,
\* gathered the rows and went through the host's sync
C2_Witness ==
    /\ IsICLMetric(metric)
    /\ Synced
    /\ \A r \in Ranks : Len(before.response_cache[r]) >= 1
    /\ before.response_cache[1] # before.response_cache[2]
    /\ Len(calls) = 6

----------------------------------------------------------------------------
(* BinaryF1Score                                                           *)

\* output holds one row of two logits per item, target one class per item
F1Rows == {<<1, 0>>, <<0, 1>>, <<1, 1>>}
F1Batches ==
    UNION {[output : [1..len -> F1Rows], target : [1..len -> {0, 1}]] : len \in 1..2}

\* update
binary_f1_update(st, output, target) ==
    LET predictions == [i \in DOMAIN output |-> argmax(output[i])]
        of_positives == MaskSelect(predictions, [i \in DOMAIN target |-> target[i] = 1])
        of_negatives == MaskSelect(predictions, [i \in DOMAIN target |-> target[i] = 0])
    IN  [st EXCEPT
            !.true_positive = @ + SumSeq(of_positives),
            !.false_positive =
                @ + CountTrue([i \in DOMAIN of_positives |-> of_positives[i] = 0]),
            !.false_negative =
                @ + CountTrue([i \in DOMAIN of_negatives |-> of_negatives[i] = 1])]

\* a plausible slip: the factor 0.5 is left out
f1_without_half(true_positive, false_positive, false_negative) ==
    RDiv(RInt(true_positive), RInt(true_positive + false_negative + false_positive))

\* f1 = true_positive / (true_positive + 0.5 * (false_negative + false_positive))
f1(true_positive, false_positive, false_negative) ==
    RDiv(RInt(true_positive),
         RAdd(RInt(true_positive),
              RMul(Rat(1, 2), RInt(false_negative + false_positive))))

InitBinaryF1 ==
    /\ metric = "BinaryF1Score"
    /\ state = [true_positive |-> 0, false_positive |-> 0, false_negative |-> 0]
    /\ rank_state = <<>>
    /\ calls = <<>>
    /\ args = [op |-> "__init__"]
    /\ before = NoState
    /\ ret = "ok"

BinaryF1Update ==
    /\ Len(calls) < MaxTotal
    /\ \E x \in F1Batches :
         /\ args' = [op |-> "update", output |-> x.output, target |-> x.target]
         /\ state' = binary_f1_update(state, x.output, x.target)
         /\ calls' = calls \o [i \in DOMAIN x.output |->
                                  [output |-> x.output[i], target |-> x.target[i]]]
    /\ before' = state
    /\ ret' = "ok"
    /\ UNCHANGED <<metric, rank_state>>

BinaryF1Compute ==
    /\ args.op # "compute"
    /\ args' = [op |-> "compute"]
    /\ before' = state
    /\ ret' = f1(state.true_positive, state.false_positive, state.false_negative)
    /\ UNCHANGED <<metric, state, rank_state, calls>>

NextBinaryF1 == BinaryF1Update \/ BinaryF1Compute

SpecBinaryF1 == InitBinaryF1 /\ [][NextBinaryF1]_vars

\* the class the model predicts for an item: 1 when its second logit is larger
PredictedClass(item) == IF item.output[2] > item.output[1] THEN 1 ELSE 0

\* the items seen so far with the given target and predicted class
Seen(target, predicted) ==
    Cardinality({i \in DOMAIN calls :
                    calls[i].target = target /\ PredictedClass(calls[i]) = predicted})

TruePositives == Seen(1, 1)
FalsePositives == Seen(0, 1)
FalseNegatives == Seen(1, 0)

\* C13: after any updates with targets in {0, 1}, true_positive is the number of
\* items with target 1 predicted 1, false_positive the number with target 0
\* predicted 1, false_negative the number with target 1 predicted 0.
C13_CountersAreWhatTheyAreCalled ==
    /\ state.true_positive = TruePositives
    /\ state.false_positive = FalsePositives
    /\ state.false_negative = FalseNegatives

\* C14: compute returns 2*TP / (2*TP + FP + FN) for the true counts TP, FP, FN
\* of true positives, false positives and false negatives over all updates
\* (undefined, 0/0, while all three are 0).
C14_ComputeIsF1 ==
    args.op = "compute" =>
        ret = RDiv(RInt(2 * TruePositives),
                   RInt(2 * TruePositives + FalsePositives + FalseNegatives))

\* an F1 strictly between 0 and 1 computed from different numbers of false
\* positives and false negatives
C14_Witness ==
    /\ args.op = "compute"
    /\ TruePositives >= 1
    /\ FalsePositives >= 2
    /\ FalseNegatives = 0
    /\ ret = Rat(2 * TruePositives, 2 * TruePositives + FalsePositives)

----------------------------------------------------------------------------
(* LanguageCrossEntropy (LanguagePerplexity inherits __init__ and update)  *)

\* A row of logits over three classes is written as the negated base-2
\* logarithms of the probabilities its softmax gives: <<1, 2, 2>> stands for
\* logits whose softmax is (1/2, 1/4, 1/4).  Losses are counted in units of
\* ln 2, so the cross entropy of a row against class t is row[t + 1].
CERows == {<<1, 2, 2>>, <<2, 2, 1>>}
CETargets == {0, 2, IgnoreIndex}
CEBatches ==
    [logits : [1..1 -> CERows], target : [1..1 -> CETargets]] \cup
    [logits : {<< <<1, 2, 2>>, <<2, 2, 1>> >>}, target : [1..2 -> CETargets]]

\* the kinds of object given as output: a Mapping holding the logits, the
\* logits Tensor itself, or something else
OutputKinds == {"Mapping", "Tensor", "list"}

\* torch.nn.CrossEntropyLoss(ignore_index=ignore_index, reduction='sum')
loss_fn(logits, target, ignore_index) ==
    SumSeq([i \in DOMAIN target |->
               IF target[i] = ignore_index THEN 0 ELSE logits[i][target[i] + 1]])

\* a plausible slip: every update counts as one item
total_items_per_batch(target, ignore_index) == 1

\* total_items = (target != self.ignore_index).sum()
total_items(target, ignore_index) ==
    CountTrue([i \in DOMAIN target |-> target[i] # ignore_index])

\* update, for an output that is a Mapping or a Tensor
cross_entropy_update(st, logits, target) ==
    [st EXCEPT !.total_items = @ + total_items(target, st.ignore_index),
               !.sum_loss = RAdd(@, RInt(loss_fn(logits, target, st.ignore_index)))]

InitCrossEntropy ==
    /\ metric \in {"LanguageCrossEntropy", "LanguagePerplexity"}
    /\ state = [sum_loss |-> RInt(0), total_items |-> 0, ignore_index |-> IgnoreIndex]
    /\ rank_state = <<>>
    /\ calls = <<>>
    /\ args = [op |-> "__init__"]
    /\ before = NoState
    /\ ret = "ok"

\* update; calls logs the batches of the updates that went through.  An
\* output that is neither a Mapping nor a Tensor raises before the batch is
\* looked at.
CrossEntropyUpdate ==
    /\ Len(calls) < MaxTotal
    /\ \E kind \in OutputKinds : \E x \in CEBatches :
         /\ IF kind \in {"Mapping", "Tensor"}
            THEN /\ args' = [op |-> "update", output |-> kind,
                             logits |-> x.logits, target |-> x.target]
                 /\ state' = cross_entropy_update(state, x.logits, x.target)
                 /\ calls' = Append(calls, x)
                 /\ ret' = "ok"
            ELSE /\ args' = [op |-> "update", output |-> kind]
                 /\ ret' = "Exception"
                 /\ UNCHANGED <<state, calls>>
    /\ before' = state
    /\ UNCHANGED <<metric, rank_state>>

\* LanguageCrossEntropy.compute; LanguagePerplexity.compute returns torch.exp
\* of it, written <<"exp", average>>
CrossEntropyCompute ==
    /\ args.op # "compute"
    /\ args' = [op |-> "compute"]
    /\ before' = state
    /\ LET avg_loss == RDiv(state.sum_loss, RInt(state.total_items))
       IN  ret' = IF metric = "LanguagePerplexity" THEN <<"exp", avg_loss>> ELSE avg_loss
    /\ UNCHANGED <<metric, state, rank_state, calls>>

NextCrossEntropy == CrossEntropyUpdate \/ CrossEntropyCompute

SpecCrossEntropy == InitCrossEntropy /\ [][NextCrossEntropy]_vars

\* the target tokens of all updates that are not the ignore index
CountedTokens ==
    {<<b, i>> \in (DOMAIN calls) \X (1..2) :
        i <= Len(calls[b].target) /\ calls[b].target[i] # IgnoreIndex}

\* the loss of all those tokens: minus the logarithm of the probability the
\* logits give to the token's class
RECURSIVE LossOf(_)
LossOf(tokens) ==
    IF tokens = {} THEN 0
    ELSE LET t == CHOOSE u \in tokens : TRUE
         IN  calls[t[1]].logits[t[2]][calls[t[1]].target[t[2]] + 1]
                 + LossOf(tokens \ {t})

\* the average loss a result of compute stands for
AverageLoss == IF metric = "LanguagePerplexity" THEN ret[2] ELSE ret

====
